---- MODULE Spec2Model ----
(***************************************************************************)
(* Model of mockingbird2/mindpark:                                         *)
(*   - vizbot/core/benchmark.py : Benchmark (the benchmark driver)         *)
(*   - mindpark/run/gym_env.py  : GymEnv (the environment adapter)         *)
(*                                                                         *)
(* Strings are sequences of one-character strings, compared by code point  *)
(* as Python compares them.  A path is a sequence of components; the       *)
(* empty path stands for None (the code only tests paths for truthiness).  *)
(***************************************************************************)
EXTENDS Integers, Sequences, FiniteSets, TLC

(***************************************************************************)
(* Bounds of the model.                                                    *)
(***************************************************************************)
MaxRepeats == 2
MaxEpisodes == 1
MaxEnvs == 2
MaxAgents == 2
MaxNameRepeats == 12
MaxNameLen == 2
MaxCalls == 2

(***************************************************************************)
(* Python strings.                                                         *)
(***************************************************************************)
None == <<>>

\* ord(c) for the characters the model uses
Ord ==
  [c \in {"-", "/", "0", "1", "2", "3", "4", "5", "6", "7", "8", "9",
          "T", "a", "b", "c", "d", "e", "n", "p", "r", "t", "x"} |->
     CASE c = "-" -> 45 [] c = "/" -> 47
       [] c = "0" -> 48 [] c = "1" -> 49 [] c = "2" -> 50 [] c = "3" -> 51
       [] c = "4" -> 52 [] c = "5" -> 53 [] c = "6" -> 54 [] c = "7" -> 55
       [] c = "8" -> 56 [] c = "9" -> 57
       [] c = "T" -> 84
       [] c = "a" -> 97 [] c = "b" -> 98 [] c = "c" -> 99 [] c = "d" -> 100
       [] c = "e" -> 101 [] c = "n" -> 110 [] c = "p" -> 112
       [] c = "r" -> 114 [] c = "t" -> 116 [] c = "x" -> 120]

\* a < b on Python strings: the first differing character decides, and a
\* proper prefix is smaller
RECURSIVE StrLess(_, _)
StrLess(a, b) ==
  IF b = <<>> THEN FALSE
  ELSE IF a = <<>> THEN TRUE
  ELSE IF Ord[Head(a)] # Ord[Head(b)] THEN Ord[Head(a)] < Ord[Head(b)]
  ELSE StrLess(Tail(a), Tail(b))

DigitChar == <<"0", "1", "2", "3", "4", "5", "6", "7", "8", "9">>

\* str(n) of an integer
RECURSIVE Str(_)
Str(n) ==
  IF n < 0 THEN <<"-">> \o Str(0 - n)
  ELSE IF n < 10 THEN <<DigitChar[n + 1]>>
  ELSE Str(n \div 10) \o <<DigitChar[(n % 10) + 1]>>

\* str(index) left as it is: 'repeat-{}' in place of the padded template
NoPadding(s, w) == s

\* '{:0>w}'.format(s): right-aligned, filled with '0', never truncated
RECURSIVE PadZeroRight(_, _)
PadZeroRight(s, w) ==
  IF Len(s) >= w THEN s ELSE PadZeroRight(<<"0">> \o s, w)

\* index of the last sep in s, 0 when there is none (str.rfind + 1)
RECURSIVE RFind(_, _, _)
RFind(s, sep, i) ==
  IF i = 0 THEN 0
  ELSE IF s[i] = sep THEN i
  ELSE RFind(s, sep, i - 1)

\* index of the first sep in s at or after i, 0 when there is none
RECURSIVE Find(_, _, _)
Find(s, sep, i) ==
  IF i > Len(s) THEN 0
  ELSE IF s[i] = sep THEN i
  ELSE Find(s, sep, i + 1)

HasDash(s) == \E i \in 1..Len(s) : s[i] = "-"

(***************************************************************************)
(* Paths and the file system.  disk maps each repeat directory to the two  *)
(* array files it holds; a directory exists when a file lies below it.     *)
(***************************************************************************)
\* os.path.join(directory, name)
Join(directory, name) == Append(directory, name)

\* os.path.basename(path)
Basename(path) == path[Len(path)]

\* the path as the string that sorted() compares
RECURSIVE PathStr(_)
PathStr(path) ==
  IF Len(path) = 0 THEN <<>>
  ELSE IF Len(path) = 1 THEN path[1]
  ELSE path[1] \o <<"/">> \o PathStr(Tail(path))

IsPrefix(p, q) == Len(p) <= Len(q) /\ SubSeq(q, 1, Len(p)) = p

\* os.path.isdir(path)
IsDir(d, path) == \E q \in DOMAIN d : IsPrefix(path, q)

\* sorted(paths)
RECURSIVE Sorted(_)
Sorted(S) ==
  IF S = {} THEN <<>>
  ELSE LET m == CHOOSE x \in S :
                  \A y \in S \ {x} : StrLess(PathStr(x), PathStr(y))
       IN <<m>> \o Sorted(S \ {m})

(***************************************************************************)
(* State.                                                                  *)
(***************************************************************************)
VARIABLES
  \* Benchmark: the configuration, the arguments of __call__, its locals
  self_directory, self_repeats, envs, agents,
  pc, experiment, pair, scores, durations, result, failure,
  \* Benchmark._benchmark: its arguments and locals
  directory, b_scores, b_durations, repeat, trainer, ended,
  \* the file system, and the record of what the run did
  disk, fsops, trained, tick,
  \* GymEnv
  g_directory, g_monitored, g_pc, g_calls, g_emitted, g_returned,
  \* directory naming on its own
  n_pc, n_repeats, n_index, n_listing, n_sorted, n_env, n_agent, n_split

benchVars ==
  <<self_directory, self_repeats, envs, agents, pc, experiment, pair, scores,
    durations, result, failure, directory, b_scores, b_durations, repeat,
    trainer, ended, disk, fsops, trained, tick>>

gymVars == <<g_directory, g_monitored, g_pc, g_calls, g_emitted, g_returned>>

nameVars == <<n_pc, n_repeats, n_index, n_listing, n_sorted, n_env, n_agent, n_split>>

vars == <<benchVars, gymVars, nameVars>>

(***************************************************************************)
(* Inputs of the benchmark driver.                                         *)
(***************************************************************************)
\* environment identifiers, one of them with the separator in it
EnvIds == {<<"a">>, <<"a", "-", "b">>}

\* agent constructors
AgentCtors == {"A1", "A2", "A3", "A4"}

\* agent.__name__; A4 is another class that is also called c
AgentName ==
  [a \in AgentCtors |->
     CASE a = "A1" -> <<"c">>
       [] a = "A2" -> <<"d">>
       [] a = "A3" -> <<"b", "-", "c">>
       [] a = "A4" -> <<"c">>]

SeqsUpTo(S, n) == UNION {[1..k -> S] : k \in 0..n}

\* the root directory after abspath(expanduser(directory))
Root == <<<<"r">>>>

\* time.strftime('%Y-%m-%dT%H-%M-%S', time.gmtime()) at the call
Timestamp == <<"0", "-", "1", "T", "2">>

\* the name argument of __call__
Name == <<"n">>

\* '{}-{}'.format(a, b)
Format2(a, b) == a \o <<"-">> \o b

\* 'repeat-{:0>w}' with w = len(str(repeats - 1)), applied to index
RepeatName(repeats, index) ==
  <<"r", "e", "p", "e", "a", "t", "-">>
    \o PadZeroRight(Str(index), Len(Str(repeats - 1)))

\* basename.split('-', 1): the first separator in place of the last
SplitFirst(s) ==
  LET i == Find(s, "-", 1)
  IN <<SubSeq(s, 1, i - 1), SubSeq(s, i + 1, Len(s))>>

\* basename.rsplit('-', 1)
RSplit(s) ==
  LET i == RFind(s, "-", Len(s))
  IN <<SubSeq(s, 1, i - 1), SubSeq(s, i + 1, Len(s))>>

\* Benchmark._start_experiment(name)
StartExperimentPath(root, name) ==
  IF root = None THEN None ELSE Join(root, Format2(Timestamp, name))

\* itertools.product with the first sequence varying fastest
ProductAgentSlower(es, as) ==
  [k \in 1..(Len(es) * Len(as)) |->
     <<es[((k - 1) % Len(es)) + 1], as[((k - 1) \div Len(es)) + 1]>>]

\* itertools.product(envs, agents): the last sequence varies fastest
Product(es, as) ==
  [k \in 1..(Len(es) * Len(as)) |->
     <<es[((k - 1) \div Len(as)) + 1], as[((k - 1) % Len(as)) + 1]>>]

\* the pair directory joined also when there is no experiment
PairDirectoryAlways(exp, env, agent) ==
  Join(exp, Format2(env, AgentName[agent]))

\* the directory __call__ hands to _benchmark for one pair
PairDirectory(exp, env, agent) ==
  IF exp = None THEN None ELSE Join(exp, Format2(env, AgentName[agent]))

\* the directory _benchmark hands to the trainer of one repeat
RepeatDirectory(dir, repeats, index) ==
  IF dir = None THEN None ELSE Join(dir, RepeatName(repeats, index))

(***************************************************************************)
(* Nested mappings (collections.defaultdict(dict)).                        *)
(***************************************************************************)
EmptyDict == <<>>

Inner(m, k) == IF k \in DOMAIN m THEN m[k] ELSE EmptyDict

\* m[k1][k2] = v
SetItem(m, k1, k2, v) ==
  [x \in DOMAIN m \cup {k1} |->
     IF x = k1
       THEN [y \in DOMAIN Inner(m, k1) \cup {k2} |->
               IF y = k2 THEN v ELSE m[k1][y]]
       ELSE m[x]]

\* the set of (k1, k2) with m[k1][k2] set
Keys(m) == {<<x, y>> : x \in DOMAIN m, y \in UNION {DOMAIN m[z] : z \in DOMAIN m}}
             \cap UNION {{<<x, y>> : y \in DOMAIN m[x]} : x \in DOMAIN m}

(***************************************************************************)
(* The file system.                                                        *)
(***************************************************************************)
EmptyDisk == <<>>

\* what an earlier run of the same name in the same second left behind
StaleDisk ==
  (Join(Join(Join(Root, Format2(Timestamp, Name)), <<"x", "-", "e">>),
        RepeatName(1, 0))
     :> [scores |-> <<7>>, durations |-> <<9>>])

\* the files of one repeat directory replaced, the rest kept
WriteArrays(d, path, s, t) ==
  [q \in DOMAIN d \cup {path} |->
     IF q = path THEN [scores |-> s, durations |-> t] ELSE d[q]]

\* Benchmark._get_subdirs(directory)
GetSubdirs(d, dir) ==
  Sorted({SubSeq(q, 1, Len(dir) + 1) :
            q \in {r \in DOMAIN d : IsPrefix(dir, r) /\ Len(r) > Len(dir)}})

\* the inner loop of read with scores.npy loaded for both sequences
RECURSIVE LoadScoresOnly(_, _, _)
LoadScoresOnly(d, reps, field) ==
  IF reps = <<>> THEN <<>>
  ELSE <<d[Head(reps)].scores>> \o LoadScoresOnly(d, Tail(reps), field)

\* the inner loop of read: the arrays of each repeat, appended in turn
RECURSIVE LoadRepeats(_, _, _)
LoadRepeats(d, reps, field) ==
  IF reps = <<>> THEN <<>>
  ELSE <<d[Head(reps)][field]>> \o LoadRepeats(d, Tail(reps), field)

\* the outer loop of read over the benchmark directories
RECURSIVE ReadInto(_, _, _, _)
ReadInto(d, benchmarks, field, acc) ==
  IF benchmarks = <<>> THEN acc
  ELSE LET benchmark == Head(benchmarks)
           ea == RSplit(Basename(benchmark))
       IN ReadInto(d, Tail(benchmarks), field,
                   SetItem(acc, ea[1], ea[2],
                           LoadRepeats(d, GetSubdirs(d, benchmark), field)))

\* Benchmark.read(experiment), one of the two mappings it returns
Read(d, exp, field) == ReadInto(d, GetSubdirs(d, exp), field, EmptyDict)

(***************************************************************************)
(* The trainer (vizbot.core.Trainer).                                      *)
(***************************************************************************)
NoTrainer == [directory |-> None, env |-> <<>>, scores |-> <<>>, durations |-> <<>>]

\* Trainer(directory, env, **kwargs)
NewTrainer(dir, env) ==
  [directory |-> dir, env |-> env, scores |-> <<>>, durations |-> <<>>]

\* the trainer after one more episode, scored s and lasting t
RecordEpisode(tr, s, t) ==
  [tr EXCEPT !.scores = Append(@, s), !.durations = Append(@, t)]

\* the trainer keeps the arrays of its directory equal to its sequences
Persist(d, tr) ==
  IF tr.directory = None THEN d
  ELSE WriteArrays(d, tr.directory, tr.scores, tr.durations)

\* the score and the duration of the episode that ends at tick t: no two
\* episodes of a run agree on either, and no score is a duration
EpisodeScore(t) == 2 * t
EpisodeDuration(t) == (2 * t) + 1

(***************************************************************************)
(* Values that pass through the environment adapter.                       *)
(***************************************************************************)
\* the declared spaces of the wrapped environment
ActionSpace == {"left", "right"}
ObservationSpace == {"o1", "o2"}

\* the absent observation
NoObservation == "None"

\* what a caller may pass to step
Actions == ActionSpace \cup {"jump"}

\* what the wrapped environment may hand back as the observation: a member
\* of the space, None, or a value outside the space
Observations == ObservationSpace \cup {NoObservation, "stale"}

NoReward == [type |-> "NoneType", value |-> 0]

\* what the wrapped environment may hand back as the reward, with its type
Rewards ==
  {[type |-> "int", value |-> 1], [type |-> "float", value |-> 0],
   [type |-> "str", value |-> 1], NoReward}

\* isinstance(reward, (int, float))
IsIntOrFloat(reward) == reward.type \in {"int", "float"}

AssertionError == [raised |-> TRUE, reward |-> NoReward, observation |-> NoObservation]

\* the wrapped environment was not stepped by the last call
NotCalled ==
  [called |-> FALSE, action |-> "none", observation |-> NoObservation,
   reward |-> NoReward, done |-> FALSE]

(***************************************************************************)
(* The benchmark driver: Benchmark.__call__ and Benchmark._benchmark.      *)
(***************************************************************************)
\* the (env, agent) pair of the current iteration of the loop of __call__
Env == Product(envs, agents)[pair][1]
Agent == Product(envs, agents)[pair][2]

GymIdle ==
  /\ g_directory = None
  /\ g_monitored = FALSE
  /\ g_pc = "idle"
  /\ g_calls = <<>>
  /\ g_emitted = NotCalled
  /\ g_returned = [raised |-> FALSE, reward |-> NoReward, observation |-> NoObservation]

NamesIdle ==
  /\ n_pc = "idle"
  /\ n_repeats = 0
  /\ n_index = 0
  /\ n_listing = EmptyDisk
  /\ n_sorted = <<>>
  /\ n_env = <<>>
  /\ n_agent = <<>>
  /\ n_split = <<>>

BenchIdle ==
  /\ self_directory = None
  /\ self_repeats = 0
  /\ envs = <<>>
  /\ agents = <<>>
  /\ pc = "idle"
  /\ experiment = None
  /\ pair = 0
  /\ scores = EmptyDict
  /\ durations = EmptyDict
  /\ result = <<>>
  /\ failure = "none"
  /\ directory = None
  /\ b_scores = <<>>
  /\ b_durations = <<>>
  /\ repeat = 0
  /\ trainer = NoTrainer
  /\ ended = <<>>
  /\ disk = EmptyDisk
  /\ fsops = {}
  /\ trained = <<>>
  /\ tick = 0

\* Benchmark(directory, repeats) constructed, __call__(name, envs, agents)
\* entered
BenchInit ==
  /\ self_directory \in {None, Root}
  /\ self_repeats \in 1..MaxRepeats
  /\ envs \in SeqsUpTo(EnvIds, MaxEnvs)
  /\ agents \in SeqsUpTo(AgentCtors, MaxAgents)
  /\ disk \in {EmptyDisk, StaleDisk}
  /\ pc = "start"
  /\ experiment = None
  /\ pair = 0
  /\ scores = EmptyDict
  /\ durations = EmptyDict
  /\ result = <<>>
  /\ failure = "none"
  /\ directory = None
  /\ b_scores = <<>>
  /\ b_durations = <<>>
  /\ repeat = 0
  /\ trainer = NoTrainer
  /\ ended = <<>>
  /\ fsops = {}
  /\ trained = <<>>
  /\ tick = 0

\* __call__, line 37
StartExperiment ==
  /\ pc = "start"
  /\ experiment' = StartExperimentPath(self_directory, Name)
  /\ pc' = "loop"
  /\ UNCHANGED <<self_directory, self_repeats, envs, agents, pair, scores,
                 durations, result, failure, directory, b_scores, b_durations,
                 repeat, trainer, ended, disk, fsops, trained, tick>>
  /\ UNCHANGED <<gymVars, nameVars>>

\* __call__, lines 40-46, and _benchmark, lines 79-80: the next pair of the
\* product, its directory, the call of _benchmark
NextPair ==
  /\ pc = "loop"
  /\ pair < Len(Product(envs, agents))
  /\ pair' = pair + 1
  /\ directory' = PairDirectory(experiment, Product(envs, agents)[pair + 1][1],
                                Product(envs, agents)[pair + 1][2])
  /\ b_scores' = <<>>
  /\ b_durations' = <<>>
  /\ ended' = <<>>
  /\ repeat' = 0
  /\ pc' = "repeats"
  /\ UNCHANGED <<self_directory, self_repeats, envs, agents, experiment,
                 scores, durations, result, failure, trainer, disk, fsops,
                 trained, tick>>
  /\ UNCHANGED <<gymVars, nameVars>>

\* _benchmark, lines 81-85: the trainer of the next repeat
ConstructTrainer ==
  /\ pc = "repeats"
  /\ repeat < self_repeats
  /\ trainer' = NewTrainer(RepeatDirectory(directory, self_repeats, repeat), Env)
  /\ disk' = Persist(disk, trainer')
  /\ fsops' = IF trainer'.directory = None THEN fsops ELSE fsops \cup {"write"}
  /\ trained' = Append(trained, [env |-> Env, agent |-> Agent, repeat |-> repeat,
                                 directory |-> trainer'.directory,
                                 scores |-> <<>>, durations |-> <<>>,
                                 finished |-> FALSE])
  /\ pc' = "train"
  /\ UNCHANGED <<self_directory, self_repeats, envs, agents, experiment, pair,
                 scores, durations, result, failure, directory, b_scores,
                 b_durations, repeat, ended, tick>>
  /\ UNCHANGED <<gymVars, nameVars>>

\* _benchmark, line 87, inside agent(trainer)(): one episode ends and the
\* trainer records it
Episode ==
  /\ pc = "train"
  /\ Len(trainer.scores) < MaxEpisodes
  /\ trainer' = RecordEpisode(trainer, EpisodeScore(tick), EpisodeDuration(tick))
  /\ tick' = tick + 1
  /\ disk' = Persist(disk, trainer')
  /\ UNCHANGED <<self_directory, self_repeats, envs, agents, pc, experiment,
                 pair, scores, durations, result, failure, directory, b_scores,
                 b_durations, repeat, ended, fsops, trained>>
  /\ UNCHANGED <<gymVars, nameVars>>

\* the appends of lines 90-91 inside the try statement: a repeat that
\* StopTraining ends appends nothing
EndRepeatInsideTry(how) ==
  /\ b_scores' = IF how = "stopped" THEN b_scores ELSE Append(b_scores, trainer.scores)
  /\ b_durations' =
       IF how = "stopped" THEN b_durations ELSE Append(b_durations, trainer.durations)
  /\ ended' = Append(ended, how)
  /\ trained' = [trained EXCEPT ![Len(trained)] =
                   [@ EXCEPT !.scores = trainer.scores,
                             !.durations = trainer.durations,
                             !.finished = TRUE]]
  /\ repeat' = repeat + 1
  /\ pc' = "repeats"
  /\ UNCHANGED <<self_directory, self_repeats, envs, agents, experiment, pair,
                 scores, durations, result, failure, directory, trainer, disk,
                 fsops, tick>>
  /\ UNCHANGED <<gymVars, nameVars>>

\* _benchmark, lines 90-91, after the try statement
EndRepeat(how) ==
  /\ b_scores' = Append(b_scores, trainer.scores)
  /\ b_durations' = Append(b_durations, trainer.durations)
  /\ ended' = Append(ended, how)
  /\ trained' = [trained EXCEPT ![Len(trained)] =
                   [@ EXCEPT !.scores = trainer.scores,
                             !.durations = trainer.durations,
                             !.finished = TRUE]]
  /\ repeat' = repeat + 1
  /\ pc' = "repeats"
  /\ UNCHANGED <<self_directory, self_repeats, envs, agents, experiment, pair,
                 scores, durations, result, failure, directory, trainer, disk,
                 fsops, tick>>
  /\ UNCHANGED <<gymVars, nameVars>>

\* _benchmark, line 87: agent(trainer)() returns
TrainingReturns ==
  /\ pc = "train"
  /\ EndRepeat("returned")

\* _benchmark, lines 87-89: agent(trainer)() raises StopTraining
StopTrainingRaised ==
  /\ pc = "train"
  /\ EndRepeat("stopped")

\* _benchmark, line 92
BenchmarkReturns ==
  /\ pc = "repeats"
  /\ repeat >= self_repeats
  /\ pc' = "summary"
  /\ UNCHANGED <<self_directory, self_repeats, envs, agents, experiment, pair,
                 scores, durations, result, failure, directory, b_scores,
                 b_durations, repeat, trainer, ended, disk, fsops, trained,
                 tick>>
  /\ UNCHANGED <<gymVars, nameVars>>

\* max(x) raises ValueError on an empty sequence
MaxRaises(score) == \E i \in 1..Len(score) : score[i] = <<>>

\* __call__, lines 47-50
RecordPair ==
  /\ pc = "summary"
  /\ ~MaxRaises(b_scores)
  /\ scores' = SetItem(scores, Env, Agent, b_scores)
  /\ durations' = SetItem(durations, Env, Agent, b_durations)
  /\ pc' = "loop"
  /\ UNCHANGED <<self_directory, self_repeats, envs, agents, experiment, pair,
                 result, failure, directory, b_scores, b_durations, repeat,
                 trainer, ended, disk, fsops, trained, tick>>
  /\ UNCHANGED <<gymVars, nameVars>>

\* __call__, line 47, when a repeat recorded no episode
SummaryFails ==
  /\ pc = "summary"
  /\ MaxRaises(b_scores)
  /\ failure' = "ValueError"
  /\ pc' = "failed"
  /\ UNCHANGED <<self_directory, self_repeats, envs, agents, experiment, pair,
                 scores, durations, result, directory, b_scores, b_durations,
                 repeat, trainer, ended, disk, fsops, trained, tick>>
  /\ UNCHANGED <<gymVars, nameVars>>

\* __call__, lines 51-52
ReturnDryRun ==
  /\ pc = "loop"
  /\ pair >= Len(Product(envs, agents))
  /\ experiment = None
  /\ result' = [experiment |-> None, scores |-> scores, durations |-> durations]
  /\ pc' = "done"
  /\ UNCHANGED <<self_directory, self_repeats, envs, agents, experiment, pair,
                 scores, durations, failure, directory, b_scores, b_durations,
                 repeat, trainer, ended, disk, fsops, trained, tick>>
  /\ UNCHANGED <<gymVars, nameVars>>

\* __call__, lines 53-54
ReadBack ==
  /\ pc = "loop"
  /\ pair >= Len(Product(envs, agents))
  /\ experiment # None
  /\ IsDir(disk, experiment)
  /\ result' = [experiment |-> experiment,
                scores |-> Read(disk, experiment, "scores"),
                durations |-> Read(disk, experiment, "durations")]
  /\ fsops' = fsops \cup {"listdir", "load"}
  /\ pc' = "done"
  /\ UNCHANGED <<self_directory, self_repeats, envs, agents, experiment, pair,
                 scores, durations, failure, directory, b_scores, b_durations,
                 repeat, trainer, ended, disk, trained, tick>>
  /\ UNCHANGED <<gymVars, nameVars>>

\* __call__, line 53, when nothing created the experiment directory:
\* os.listdir raises FileNotFoundError
ReadFails ==
  /\ pc = "loop"
  /\ pair >= Len(Product(envs, agents))
  /\ experiment # None
  /\ ~IsDir(disk, experiment)
  /\ fsops' = fsops \cup {"listdir"}
  /\ failure' = "FileNotFoundError"
  /\ pc' = "failed"
  /\ UNCHANGED <<self_directory, self_repeats, envs, agents, experiment, pair,
                 scores, durations, result, directory, b_scores, b_durations,
                 repeat, trainer, ended, disk, trained, tick>>
  /\ UNCHANGED <<gymVars, nameVars>>

Init == BenchInit /\ GymIdle /\ NamesIdle

Next ==
  \/ StartExperiment
  \/ NextPair
  \/ ConstructTrainer
  \/ Episode
  \/ TrainingReturns
  \/ StopTrainingRaised
  \/ BenchmarkReturns
  \/ RecordPair
  \/ SummaryFails
  \/ ReturnDryRun
  \/ ReadBack
  \/ ReadFails

Spec == Init /\ [][Next]_vars

(***************************************************************************)
(* The environment adapter: GymEnv.                                        *)
(***************************************************************************)
\* step without the assertion on the reward
StepUncheckedReward(action, observation, reward, done) ==
  IF action \notin ActionSpace THEN AssertionError
  ELSE IF observation \notin ObservationSpace THEN AssertionError
  ELSE [raised |-> FALSE, reward |-> reward,
        observation |-> IF done THEN NoObservation ELSE observation]

\* GymEnv.step(action), given what self._env.step(action) hands back
Step(action, observation, reward, done) ==
  IF action \notin ActionSpace THEN AssertionError
  ELSE IF observation \notin ObservationSpace THEN AssertionError
  ELSE IF ~IsIntOrFloat(reward) THEN AssertionError
  ELSE [raised |-> FALSE, reward |-> reward,
        observation |-> IF done THEN NoObservation ELSE observation]

\* close with the wrapped environment released first
CloseCallsEnvFirst(dir) ==
  <<"env.close">> \o (IF dir # None THEN <<"monitor.close">> ELSE <<>>)

\* the calls GymEnv.close() makes, in order
CloseCalls(dir) ==
  (IF dir # None THEN <<"monitor.close">> ELSE <<>>) \o <<"env.close">>

\* GymEnv(env_name, directory, videos)
GymInit ==
  /\ g_directory \in {None, <<<<"o">>>>}
  /\ g_monitored = (g_directory # None)
  /\ g_pc = "ready"
  /\ g_calls = <<>>
  /\ g_emitted = NotCalled
  /\ g_returned = [raised |-> FALSE, reward |-> NoReward, observation |-> NoObservation]

\* GymEnv.reset()
GymReset ==
  /\ g_pc = "ready"
  /\ Len(g_calls) < MaxCalls
  /\ \E o \in ObservationSpace :
       g_returned' = [raised |-> FALSE, reward |-> NoReward, observation |-> o]
  /\ g_emitted' = NotCalled
  /\ g_calls' = Append(g_calls, "env.reset")
  /\ UNCHANGED <<g_directory, g_monitored, g_pc>>
  /\ UNCHANGED <<benchVars, nameVars>>

\* GymEnv.step(action) with an action outside the action space: the wrapped
\* environment is not called
GymStepRejected ==
  /\ g_pc = "ready"
  /\ \E a \in Actions \ ActionSpace :
       g_returned' = Step(a, NoObservation, NoReward, FALSE)
  /\ g_emitted' = NotCalled
  /\ UNCHANGED <<g_directory, g_monitored, g_pc, g_calls>>
  /\ UNCHANGED <<benchVars, nameVars>>

\* GymEnv.step(action) with an action of the action space
GymStep ==
  /\ g_pc = "ready"
  /\ Len(g_calls) < MaxCalls
  /\ \E a \in ActionSpace, o \in Observations, r \in Rewards, d \in BOOLEAN :
       /\ g_emitted' = [called |-> TRUE, action |-> a, observation |-> o,
                         reward |-> r, done |-> d]
       /\ g_returned' = Step(a, o, r, d)
  /\ g_calls' = Append(g_calls, "env.step")
  /\ UNCHANGED <<g_directory, g_monitored, g_pc>>
  /\ UNCHANGED <<benchVars, nameVars>>

\* GymEnv.close()
GymClose ==
  /\ g_pc = "ready"
  /\ g_calls' = g_calls \o CloseCalls(g_directory)
  /\ g_pc' = "closed"
  /\ UNCHANGED <<g_directory, g_monitored, g_emitted, g_returned>>
  /\ UNCHANGED <<benchVars, nameVars>>

InitEnv == GymInit /\ BenchIdle /\ NamesIdle

NextEnv ==
  \/ GymReset
  \/ GymStepRejected
  \/ GymStep
  \/ GymClose

SpecEnv == InitEnv /\ [][NextEnv]_vars

(***************************************************************************)
(* Directory naming on its own: the repeat directories of one pair for     *)
(* larger repeat counts, and the name of the pair directory for any        *)
(* environment identifier and agent name.                                  *)
(***************************************************************************)
NameChars == {"a", "-"}

Names == UNION {[1..k -> NameChars] : k \in 1..MaxNameLen}

\* the pair directory that __call__ derives for n_env and n_agent
NamesPairDirectory ==
  Join(StartExperimentPath(Root, Name), Format2(n_env, n_agent))

NamesInit ==
  /\ n_repeats \in 1..MaxNameRepeats
  /\ n_env \in Names
  /\ n_agent \in Names
  /\ n_pc = "repeats"
  /\ n_index = 0
  /\ n_listing = EmptyDisk
  /\ n_sorted = <<>>
  /\ n_split = <<>>

\* _benchmark, lines 81-91, for a trainer that scores its one episode with
\* the index of its repeat
MakeRepeat ==
  /\ n_pc = "repeats"
  /\ n_index < n_repeats
  /\ n_listing' =
       Persist(n_listing,
               RecordEpisode(NewTrainer(RepeatDirectory(NamesPairDirectory,
                                                        n_repeats, n_index),
                                        n_env),
                             n_index, n_index))
  /\ n_index' = n_index + 1
  /\ UNCHANGED <<n_pc, n_repeats, n_sorted, n_env, n_agent, n_split>>
  /\ UNCHANGED <<benchVars, gymVars>>

\* read, line 67: the repeat directories of the pair as read iterates them
ListRepeats ==
  /\ n_pc = "repeats"
  /\ n_index >= n_repeats
  /\ n_sorted' = GetSubdirs(n_listing, NamesPairDirectory)
  /\ n_pc' = "listed"
  /\ UNCHANGED <<n_repeats, n_index, n_listing, n_env, n_agent, n_split>>
  /\ UNCHANGED <<benchVars, gymVars>>

\* read, line 64: the name of the pair directory taken apart
SplitPairName ==
  /\ n_pc = "listed"
  /\ n_split' = RSplit(Basename(NamesPairDirectory))
  /\ n_pc' = "split"
  /\ UNCHANGED <<n_repeats, n_index, n_listing, n_sorted, n_env, n_agent>>
  /\ UNCHANGED <<benchVars, gymVars>>

InitNames == NamesInit /\ BenchIdle /\ GymIdle

NextNames ==
  \/ MakeRepeat
  \/ ListRepeats
  \/ SplitPairName

SpecNames == InitNames /\ [][NextNames]_vars

(***************************************************************************)
(* Properties of the benchmark driver (specification Spec).                *)
(***************************************************************************)
\* the results as the trainers held them when their repeats ended, grouped
\* as __call__ groups them: a later training of a pair replaces an earlier
RECURSIVE Collected(_, _, _)
Collected(log, field, acc) ==
  IF log = <<>> THEN acc
  ELSE LET t == Head(log)
           sofar == IF t.repeat = 0 THEN <<>> ELSE acc[t.env][t.agent]
       IN Collected(Tail(log), field,
                    SetItem(acc, t.env, t.agent, Append(sofar, t[field])))

\* a mapping keyed by agent constructors says of each pair what a mapping
\* keyed by agent names says of the pair under the agent's name
SameByName(byCtor, byName) ==
  /\ Keys(byName) = {<<k[1], AgentName[k[2]]>> : k \in Keys(byCtor)}
  /\ \A k \in Keys(byCtor) : byName[k[1]][AgentName[k[2]]] = byCtor[k[1]][k[2]]

\* nothing lay under the experiment directory when the run began (nothing
\* in a run removes a file)
FreshExperiment == \A q \in DOMAIN StaleDisk : q \notin DOMAIN disk

\* no agent name holds the separator, and two constructors share no name
PlainAgentNames ==
  /\ \A i \in 1..Len(agents) : ~HasDash(AgentName[agents[i]])
  /\ \A i, j \in 1..Len(agents) :
       AgentName[agents[i]] = AgentName[agents[j]] => agents[i] = agents[j]

C3_StopEndsOnlyThatRepeat ==
  (Len(ended) > 0 /\ \A i \in 1..Len(ended) : ended[i] = "stopped") =>
    /\ Len(b_scores) = Len(ended)
    /\ Len(b_durations) = Len(ended)
    /\ pc # "failed"

\* C4: when _benchmark returns it has self._repeats score sequences and as
\* many duration sequences, and the i-th of each have the same length
C4_RepeatsAndEqualLengths ==
  pc = "summary" =>
    /\ Len(b_scores) = self_repeats
    /\ Len(b_durations) = self_repeats
    /\ \A i \in 1..self_repeats : Len(b_scores[i]) = Len(b_durations[i])

C4_Witness ==
  /\ pc = "summary"
  /\ self_repeats = 2
  /\ ended = <<"stopped", "returned">>
  /\ Len(b_scores[1]) = 0
  /\ Len(b_scores[2]) = 1

\* C5: with no root directory no path is derived, every trainer gets no
\* directory, the file system is neither written nor read, and what the
\* run returns is None with the in-memory mappings
C5_DryRun ==
  self_directory = None =>
    /\ experiment = None
    /\ directory = None
    /\ trainer.directory = None
    /\ \A k \in 1..Len(trained) : trained[k].directory = None
    /\ fsops = {}
    /\ disk \in {EmptyDisk, StaleDisk}
    /\ pc = "done" =>
         /\ result.experiment = None
         /\ result.scores = Collected(trained, "scores", EmptyDict)
         /\ result.durations = Collected(trained, "durations", EmptyDict)

C5_Witness ==
  /\ self_directory = None
  /\ pc = "done"
  /\ disk = StaleDisk
  /\ Cardinality(Keys(result.scores)) = 4
  /\ self_repeats = 2

\* C8: the k-th trainer constructed is the one of the k-th (environment,
\* agent, repeat) triple with the environment varying slowest and the repeat
\* fastest, every trainer but the latest has finished, and a run that
\* returns has constructed |envs| * |agents| * repeats trainers
C8_ProductOrder ==
  /\ \A k \in 1..Len(trained) :
       /\ trained[k].env = envs[((k - 1) \div (self_repeats * Len(agents))) + 1]
       /\ trained[k].agent = agents[(((k - 1) \div self_repeats) % Len(agents)) + 1]
       /\ trained[k].repeat = (k - 1) % self_repeats
       /\ k < Len(trained) => trained[k].finished
  /\ pc = "done" => Len(trained) = Len(envs) * Len(agents) * self_repeats

C8_Witness ==
  /\ pc = "done"
  /\ self_repeats = 2
  /\ Len(envs) = 2 /\ envs[1] # envs[2]
  /\ Len(agents) = 2 /\ agents[1] # agents[2]
  /\ Len(trained) = 8

(***************************************************************************)
(* Properties of the environment adapter (specification SpecEnv).          *)
(***************************************************************************)
\* C2 as stated: a step with an action of the action space that the wrapped
\* environment reports done returns the reward with the absent observation,
\* whatever observation the wrapped environment handed back
C2_TerminalStepReturnsAbsent ==
  (g_emitted.called /\ g_emitted.done /\ IsIntOrFloat(g_emitted.reward)) =>
    g_returned = [raised |-> FALSE, reward |-> g_emitted.reward,
                  observation |-> NoObservation]

\* C7: a step that returns returns an int or float reward, and a step whose
\* wrapped environment hands back any other reward fails its assertion
C7_RewardNumeric ==
  g_emitted.called =>
    /\ ~g_returned.raised => g_returned.reward.type \in {"int", "float"}
    /\ g_emitted.reward.type \notin {"int", "float"} => g_returned = AssertionError

C7_Witness ==
  /\ g_emitted.called
  /\ g_emitted.reward.type = "str"
  /\ g_emitted.observation \in ObservationSpace
  /\ g_returned.raised

\* C9: after close the wrapped environment has been closed, once and last;
\* the monitor has been closed exactly when a directory was given at
\* construction, and then before the wrapped environment
C9_CloseOrder ==
  g_pc = "closed" =>
    /\ g_calls[Len(g_calls)] = "env.close"
    /\ Cardinality({i \in 1..Len(g_calls) : g_calls[i] = "env.close"}) = 1
    /\ g_monitored = (g_directory # None)
    /\ (g_directory # None) =
         (Cardinality({i \in 1..Len(g_calls) : g_calls[i] = "monitor.close"}) = 1)
    /\ \A i, j \in 1..Len(g_calls) :
         (g_calls[i] = "monitor.close" /\ g_calls[j] = "env.close") => i < j

C9_Witness ==
  /\ g_pc = "closed"
  /\ g_directory # None
  /\ Len(g_calls) = MaxCalls + 2

(***************************************************************************)
(* Properties of the directory names (specification SpecNames).            *)
(***************************************************************************)
\* C6: the repeat directories of a pair are pairwise distinct, their names
\* ascend in string order as their indices ascend, and read takes them, and
\* the arrays in them, in the order of the indices 0..R-1
C6_RepeatOrder ==
  /\ \A i, j \in 0..(n_index - 1) :
       i < j => StrLess(RepeatName(n_repeats, i), RepeatName(n_repeats, j))
  /\ Cardinality(DOMAIN n_listing) = n_index
  /\ n_pc \in {"listed", "split"} =>
       /\ Len(n_sorted) = n_repeats
       /\ \A i \in 1..n_repeats :
            n_sorted[i] = Join(NamesPairDirectory, RepeatName(n_repeats, i - 1))
       /\ LoadRepeats(n_listing, n_sorted, "scores")
            = [i \in 1..n_repeats |-> <<i - 1>>]

C6_Witness ==
  /\ n_pc = "listed"
  /\ n_repeats = 11
  /\ Basename(n_sorted[2]) = <<"r", "e", "p", "e", "a", "t", "-", "0", "1">>
  /\ Basename(n_sorted[11]) = <<"r", "e", "p", "e", "a", "t", "-", "1", "0">>

\* C10: for an agent name without '-', splitting the name of the pair
\* directory gives back the environment identifier and the agent name, and
\* no other such pair has a directory of that name
C10_PairNameRoundTrip ==
  (n_pc = "split" /\ ~HasDash(n_agent)) =>
    /\ n_split = <<n_env, n_agent>>
    /\ \A e \in Names, a \in Names :
         (~HasDash(a) /\ Format2(e, a) = Basename(NamesPairDirectory))
           => (e = n_env /\ a = n_agent)

C10_Witness ==
  /\ n_pc = "split"
  /\ HasDash(n_env)
  /\ ~HasDash(n_agent)
  /\ n_split = <<n_env, n_agent>>

====
